---- MODULE Spec2Model ----
(***************************************************************************)
(* Model of pymc3/theanof.py: the stream bridge (GeneratorOp), the         *)
(* differentiation helpers (gradient, jacobian, hessian, hessian_diag)     *)
(* and the variable joiner (join_nonshared_inputs).                        *)
(*                                                                         *)
(* Three specifications share the module, one per component:               *)
(*   SpecStream  GeneratorOp.perform / GeneratorOp.set_gen                 *)
(*   SpecDiff    gradient / jacobian / hessian / hessian_diag              *)
(*   SpecJoin    join_nonshared_inputs                                     *)
(* Each leaves the variables of the other components untouched.            *)
(***************************************************************************)
EXTENDS Integers, Sequences, FiniteSets, TLC

VARIABLES
    \* ---- GeneratorOp ----
    generator,   \* self.generator: the DataGenerator currently bound
    nan,         \* self._nan: the array emitted on exhaustion
    output,      \* output_storage[0][0] after the last perform
    lastop,      \* the operation that ran last
    raised,      \* the exception the last operation raised ("none" if none)
    log,         \* history: every array perform has emitted since construction
    rebinds,     \* history: number of set_gen calls that succeeded
    argtype,     \* history: the tensor type of the source handed to the last set_gen
    \* ---- differentiation ----
    f,           \* the expression handed to the differentiation function
    vars,        \* its vars argument: a list of variables, or None
    dop,         \* the differentiation function that ran last
    result,      \* what it returned
    \* ---- join_nonshared_inputs (vars is its list of variables) ----
    names,       \* the name each variable node carries
    xs,          \* the expressions to rewrite
    shared,      \* the keys of the shared mapping
    make_shared, \* the make_shared flag
    jop,         \* the step that ran last
    joined,      \* what join_nonshared_inputs returned
    evals        \* the values of the original and the rewritten expressions

streamVars == <<generator, nan, output, lastop, raised, log, rebinds, argtype>>

diffVars == <<f, vars, dop, result>>

joinVars == <<names, xs, shared, make_shared, jop, joined, evals>>

state == <<streamVars, diffVars, joinVars>>

None == "None"

(***************************************************************************)
(* Arrays.  An array is [dtype, shape, tag]: tag names its contents        *)
(* ("nan" for an array filled with NaN).                                   *)
(***************************************************************************)
MaxSrcLen == 2     \* elements of a source
MaxAdvance == 4    \* perform calls in a run
MaxRebind == 1     \* successful set_gen calls in a run

Arrays ==
    {[dtype |-> "float32", shape |-> <<2>>, tag |-> "a"],
     [dtype |-> "float32", shape |-> <<2>>, tag |-> "b"],
     [dtype |-> "float32", shape |-> <<3>>, tag |-> "c"],
     [dtype |-> "float32", shape |-> <<2, 2>>, tag |-> "d"],
     [dtype |-> "int64", shape |-> <<2>>, tag |-> "e"]}

\* no array: the output storage before the first perform
NoArray == [dtype |-> "none", shape |-> <<>>, tag |-> "none"]

\* tt.TensorType(dtype, (False,) * ndim): the declared output type of a source
TensorTypeOf(a) == [dtype |-> a.dtype, ndim |-> Len(a.shape)]

\* the element sequences a source may hold: non-empty, one tensor type
SourceItems ==
    {s \in UNION {[1..n -> Arrays] : n \in 1..MaxSrcLen} :
        \A i \in 1..Len(s) : TensorTypeOf(s[i]) = TensorTypeOf(s[1])}

\* DataGenerator(gen): takes the first element as test_value and fixes the type
DataGenerator(items) ==
    [items |-> items, pos |-> 0,
     test_value |-> items[1], tensortype |-> TensorTypeOf(items[1])]

\* next(DataGenerator): the next element, or StopIteration when none is left
DataGeneratorNext(g) ==
    IF g.pos < Len(g.items)
    THEN [stop |-> FALSE, value |-> g.items[g.pos + 1],
          gen |-> [g EXCEPT !.pos = g.pos + 1]]
    ELSE [stop |-> TRUE, value |-> NoArray, gen |-> g]

\* np.zeros_like(x); x[...] = np.nan
NanLike(x) == [dtype |-> x.dtype, shape |-> x.shape, tag |-> "nan"]

\* an integer array cannot hold NaN: the assignment raises ValueError
CanHoldNan(x) == x.dtype = "float32"

(***************************************************************************)
(* GeneratorOp                                                             *)
(***************************************************************************)
\* GeneratorOp.__init__(gen)
GeneratorOpInit(items) ==
    /\ CanHoldNan(DataGenerator(items).test_value)
    /\ generator = DataGenerator(items)
    /\ nan = NanLike(DataGenerator(items).test_value)

\* the differentiation component, not in use
DiffIdle == f = None /\ vars = <<>> /\ dop = None /\ result = None

\* the joiner, not in use
JoinIdle ==
    /\ names = None /\ xs = None /\ shared = None /\ make_shared = None
    /\ jop = None /\ joined = None /\ evals = None

InitStream ==
    /\ DiffIdle /\ JoinIdle
    /\ \E items \in SourceItems : GeneratorOpInit(items)
    /\ output = NoArray
    /\ lastop = "init"
    /\ raised = "none"
    /\ log = <<>>
    /\ rebinds = 0
    /\ argtype = None

\* perform without its except clause: StopIteration escapes
PerformOutcomeUncaught(r) ==
    IF r.stop
    THEN [raised |-> "StopIteration", stored |-> FALSE, value |-> NoArray]
    ELSE [raised |-> "none", stored |-> TRUE, value |-> r.value]

\* try: output = next(self.generator)  except StopIteration: output = self._nan
PerformOutcome(r) ==
    IF r.stop
    THEN [raised |-> "none", stored |-> TRUE, value |-> nan]
    ELSE [raised |-> "none", stored |-> TRUE, value |-> r.value]

\* GeneratorOp.perform
perform ==
    /\ Len(log) < MaxAdvance
    /\ LET r == DataGeneratorNext(generator)
           o == PerformOutcome(r) IN
        /\ generator' = r.gen
        /\ output' = IF o.stored THEN o.value ELSE output
        /\ log' = Append(log, o.value)
        /\ raised' = o.raised
    /\ lastop' = "perform"
    /\ argtype' = None
    /\ UNCHANGED <<nan, rebinds, diffVars, joinVars>>

\* set_gen without its type check
SameTypeUnchecked(gen) == TRUE

\* the type check of set_gen
SameType(gen) == gen.tensortype = generator.tensortype

\* GeneratorOp.set_gen(gen)
set_gen ==
    \E items \in SourceItems :
        LET gen == DataGenerator(items) IN
        /\ UNCHANGED <<diffVars, joinVars>>
        /\ lastop' = "set_gen"
        /\ argtype' = gen.tensortype
        /\ IF ~SameType(gen)
           THEN /\ raised' = "ValueError"
                /\ UNCHANGED <<generator, nan, output, log, rebinds>>
           ELSE /\ rebinds < MaxRebind
                /\ raised' = "none"
                /\ generator' = gen
                /\ rebinds' = rebinds + 1
                /\ UNCHANGED <<nan, output, log>>

NextStream == perform \/ set_gen

SpecStream == InitStream /\ [][NextStream]_state

(***************************************************************************)
(* Properties of the stream bridge                                         *)
(***************************************************************************)
\* every element of the source has the shape of the first
OneShape(items) == \A i \in 1..Len(items) : items[i].shape = items[1].shape

\* the last array in a history that is not a sentinel (NoArray if there is none)
LastReal(h) ==
    LET real == {i \in 1..Len(h) : h[i].tag \notin {"nan", "none"}} IN
    IF real = {} THEN NoArray
    ELSE h[CHOOSE i \in real : \A j \in real : j <= i]

\* the elements of the source the bridge was built over, while it has not
\* been rebound
Source == generator.items

\* C1: over a source e1..en of one shape that was never rebound, the k-th
\* advance emits ek for k <= n and a NaN-filled array of that shape for
\* every k > n, and no advance raises.
C1_AdvanceSequence ==
    (rebinds = 0 /\ OneShape(Source)) =>
        /\ \A k \in 1..Len(log) :
              log[k] = IF k <= Len(Source) THEN Source[k]
                       ELSE [dtype |-> Source[1].dtype, shape |-> Source[1].shape,
                             tag |-> "nan"]
        /\ (lastop = "perform" => raised = "none" /\ output = log[Len(log)])

\* a source of two different elements advanced four times: a, b, sentinel,
\* sentinel
C1_Witness ==
    /\ rebinds = 0 /\ OneShape(Source) /\ Len(Source) = 2
    /\ Source[1] # Source[2]
    /\ Len(log) = 4 /\ lastop = "perform"
    /\ log[3].tag = "nan" /\ log[4].tag = "nan"

\* C2: a set_gen whose source has another tensor type than the current one
\* raises ValueError and changes neither the bound source nor the sentinel,
\* so the advances that follow are those of the source bound before.
C2_FailedRebindKeepsSource ==
    [][(lastop' = "set_gen" /\ argtype' # generator.tensortype)
         => (raised' = "ValueError" /\ generator' = generator /\ nan' = nan
             /\ output' = output /\ log' = log)]_state

\* a rebind refused in the middle of a two-element source
C2_Witness ==
    /\ lastop = "set_gen" /\ raised = "ValueError" /\ rebinds = 0
    /\ argtype # generator.tensortype
    /\ Len(Source) = 2 /\ generator.pos = 1 /\ log = <<Source[1]>>

\* C8: an advance that finds the source exhausted emits a sentinel of the
\* shape of the last value an advance produced.
C8_SentinelShapeOfLastValue ==
    (lastop = "perform" /\ output.tag = "nan" /\ LastReal(log) # NoArray)
        => output.shape = LastReal(log).shape

(***************************************************************************)
(* Differentiation.  A graph variable has a number of elements and a type; *)
(* an expression is a polynomial in the elements of the variables, so that *)
(* its derivatives can be computed.                                        *)
(***************************************************************************)
MaxDeg == 2      \* degree of the polynomials handed in
MaxVars == 2     \* length of an explicit vars list

\* the tensor variables of the graph, in the order a graph traversal finds them
GraphVars == <<"x", "y", "z">>

\* element count of each variable
Size(v) == CASE v = "x" -> 2 [] v = "y" -> 1 [] v = "z" -> 1

\* vartypes.continuous_types: z is an integer variable
IsContinuous(v) == v \in {"x", "y"}

RECURSIVE SizeSum(_)
\* total element count of a list of variables
SizeSum(vs) == IF vs = <<>> THEN 0 ELSE Size(Head(vs)) + SizeSum(Tail(vs))

\* the elements of all variables, numbered in graph order
ElemIds == 1..SizeSum(GraphVars)

RECURSIVE IndexOf(_, _)
IndexOf(v, vs) == IF Head(vs) = v THEN 1 ELSE 1 + IndexOf(v, Tail(vs))

\* the k-th element of variable v
Elem(v, k) == SizeSum(SubSeq(GraphVars, 1, IndexOf(v, GraphVars) - 1)) + k

RECURSIVE DegUpTo(_, _)
DegUpTo(m, n) == IF n = 0 THEN 0 ELSE m[n] + DegUpTo(m, n - 1)

\* monomials: an exponent for every element
Mono == {m \in [ElemIds -> 0..MaxDeg] : DegUpTo(m, SizeSum(GraphVars)) <= MaxDeg}

ZeroPoly == [m \in Mono |-> 0]
Term(c, m0) == [m \in Mono |-> IF m = m0 THEN c ELSE 0]
PAdd(p, q) == [m \in Mono |-> p[m] + q[m]]
PNeg(p) == [m \in Mono |-> 0 - p[m]]

\* partial derivative of polynomial p with respect to element e
D(p, e) ==
    [m \in Mono |->
        LET up == [m EXCEPT ![e] = @ + 1] IN
        IF up \in Mono THEN up[e] * p[up] ELSE 0]

\* p depends on element e
DependsOn(p, e) == \E m \in Mono : p[m] # 0 /\ m[e] > 0

\* variable v feeds polynomial p
Connected(p, v) == \E k \in 1..Size(v) : DependsOn(p, Elem(v, k))

\* the variables feeding a set of polynomials, in graph order
LeavesOf(ps) == SelectSeq(GraphVars, LAMBDA v : \E p \in ps : Connected(p, v))

\* a scalar expression
Scalar(p) == [raised |-> FALSE, ndim |-> 0, shape |-> <<>>, data |-> p,
              leaves |-> LeavesOf({p})]

\* inputvars(a): the tensor variables that are inputs of a
inputvars(a) == a.leaves

\* cont_inputs(f) = typefilter(inputvars(f), continuous_types)
cont_inputs(a) == SelectSeq(inputvars(a), IsContinuous)

\* tt.flatten(a)
flatten(a) == IF a.ndim = 0 THEN <<a.data>> ELSE a.data

RECURSIVE Concat(_)
\* the concatenation of a sequence of sequences
Concat(ss) == IF ss = <<>> THEN <<>> ELSE Head(ss) \o Concat(Tail(ss))

\* tt.grad(p, v, disconnected_inputs=mode), flattened
Grad(p, v, mode) ==
    [raised |-> ~Connected(p, v) /\ mode = "raise",
     data |-> [k \in 1..Size(v) |-> D(p, Elem(v, k))]]

\* gradient1 with disconnected_inputs='raise'
gradient1Raise(p, v) == Grad(p, v, "raise")

\* gradient1(f, v) = tt.flatten(tt.grad(f, v, disconnected_inputs='warn'))
gradient1(p, v) == Grad(p, v, "warn")

\* a length-one vector in place of the empty one
empty_gradientOne ==
    [raised |-> FALSE, ndim |-> 1, shape |-> <<1>>, data |-> <<ZeroPoly>>,
     leaves |-> <<>>]

\* empty_gradient = tt.zeros(0, dtype='float32')
empty_gradient ==
    [raised |-> FALSE, ndim |-> 1, shape |-> <<0>>, data |-> <<>>,
     leaves |-> <<>>]

\* a vars argument of None (the default)
NoVars == <<None>>

\* if vars is None: vars = cont_inputs(f)
ResolveVars(a, vs) == IF vs = NoVars THEN cont_inputs(a) ELSE vs

\* tt.concatenate([gradient1(f, v) for v in vars], axis=0)
GradientBlocks(p, vs) ==
    Concat([i \in 1..Len(vs) |-> gradient1(p, vs[i]).data])

\* gradient(f, vars)
gradient(a, vs) ==
    LET ws == ResolveVars(a, vs) IN
    IF ws # <<>>
    THEN LET d == GradientBlocks(a.data, ws) IN
         [raised |-> \E i \in 1..Len(ws) : gradient1(a.data, ws[i]).raised,
          ndim |-> 1, shape |-> <<Len(d)>>, data |-> d, leaves |-> a.leaves]
    ELSE empty_gradient

\* jacobian1(f, v): row i is gradient1(f[i], v)
jacobian1(a, v) ==
    [i \in 1..Len(flatten(a)) |-> gradient1(flatten(a)[i], v).data]

\* jacobian(f, vars)
jacobian(a, vs) ==
    LET ws == ResolveVars(a, vs)
        m == Len(flatten(a)) IN
    IF ws # <<>>
    THEN [raised |-> a.raised, ndim |-> 2, shape |-> <<m, SizeSum(ws)>>,
          data |-> [i \in 1..m |->
                      Concat([j \in 1..Len(ws) |-> jacobian1(a, ws[j])[i]])],
          leaves |-> a.leaves]
    ELSE empty_gradient

\* elementwise negation of a tensor
Negate(t) ==
    [t EXCEPT !.data =
        IF t.ndim = 2
        THEN [i \in 1..Len(t.data) |->
                [j \in 1..Len(t.data[i]) |-> PNeg(t.data[i][j])]]
        ELSE [i \in 1..Len(t.data) |-> PNeg(t.data[i])]]

\* the graph tt.grad built, with the variables gl as its inputs
WithLeaves(t, gl) == [t EXCEPT !.leaves = gl]

\* hessian(f, vars) = -jacobian(gradient(f, vars), vars); gl are the input
\* variables of the gradient graph
hessian(a, vs, gl) == Negate(jacobian(WithLeaves(gradient(a, vs), gl), vs))

\* hessian_diag1(f, v): entry i is gradient1(gradient1(f, v)[i], v)[i]
hessian_diag1(p, v) ==
    [i \in 1..Size(v) |-> gradient1(gradient1(p, v).data[i], v).data[i]]

\* hessian_diag without the negation
hessian_diagUnsigned(a, vs) ==
    LET ws == ResolveVars(a, vs) IN
    IF ws # <<>>
    THEN LET d == Concat([j \in 1..Len(ws) |-> hessian_diag1(a.data, ws[j])]) IN
         [raised |-> FALSE, ndim |-> 1, shape |-> <<Len(d)>>, data |-> d,
          leaves |-> a.leaves]
    ELSE empty_gradient

\* hessian_diag(f, vars)
hessian_diag(a, vs) ==
    LET ws == ResolveVars(a, vs) IN
    IF ws # <<>>
    THEN LET d == Concat([j \in 1..Len(ws) |-> hessian_diag1(a.data, ws[j])]) IN
         Negate([raised |-> FALSE, ndim |-> 1, shape |-> <<Len(d)>>, data |-> d,
                 leaves |-> a.leaves])
    ELSE empty_gradient

\* The input variables of the graph tt.grad builds are decided by the graph
\* library: they include every variable the derivative depends on and are
\* among the inputs of the differentiated expression.
GradLeafChoices(a, g) ==
    LET avail == {a.leaves[i] : i \in 1..Len(a.leaves)}
        needed == {w \in avail : \E i \in 1..Len(g.data) : Connected(g.data[i], w)}
    IN {SelectSeq(a.leaves, LAMBDA v : v \in S) :
            S \in {T \in SUBSET avail : needed \subseteq T}}

\* the expressions handed in: one term of any degree, alone or with a term
\* of the highest degree
Exprs ==
    {PAdd(Term(1, m1), Term(c2, m2)) :
        c2 \in {0, -2}, m1 \in Mono,
        m2 \in {m \in Mono : DegUpTo(m, SizeSum(GraphVars)) = MaxDeg}}

\* the vars arguments handed in: None, or a list of continuous variables
VarLists ==
    {NoVars} \cup
    UNION {[1..n -> {v \in {GraphVars[i] : i \in 1..Len(GraphVars)} : IsContinuous(v)}] :
             n \in 0..MaxVars}

StreamIdle ==
    /\ generator = None /\ nan = None /\ output = NoArray /\ lastop = None
    /\ raised = None /\ log = None /\ rebinds = None
    /\ argtype = None

InitDiff ==
    /\ StreamIdle /\ JoinIdle
    /\ f \in {Scalar(p) : p \in Exprs}
    /\ vars \in VarLists
    /\ dop = "init"
    /\ result = None

Gradient ==
    /\ dop = "init"
    /\ dop' = "gradient"
    /\ result' = gradient(f, vars)
    /\ UNCHANGED <<f, vars, streamVars, joinVars>>

Jacobian ==
    /\ dop = "init"
    /\ dop' = "jacobian"
    /\ result' = jacobian(f, vars)
    /\ UNCHANGED <<f, vars, streamVars, joinVars>>

Hessian ==
    /\ dop = "init"
    /\ dop' = "hessian"
    /\ \E gl \in GradLeafChoices(f, gradient(f, vars)) :
          result' = hessian(f, vars, gl)
    /\ UNCHANGED <<f, vars, streamVars, joinVars>>

HessianDiag ==
    /\ dop = "init"
    /\ dop' = "hessian_diag"
    /\ result' = hessian_diag(f, vars)
    /\ UNCHANGED <<f, vars, streamVars, joinVars>>

NextDiff == Gradient \/ Jacobian \/ Hessian \/ HessianDiag

SpecDiff == InitDiff /\ [][NextDiff]_state

(***************************************************************************)
(* Properties of the differentiation functions                             *)
(***************************************************************************)
DiffOps == {"gradient", "jacobian", "hessian", "hessian_diag"}

\* C3 as stated: with vars = [] gradient, jacobian and hessian_diag return a
\* result of length zero and hessian returns a two-dimensional 0 x 0 result.
C3_EmptyVarsHessianIsMatrix ==
    (vars = <<>> /\ dop \in DiffOps) =>
        IF dop = "hessian"
        THEN result.ndim = 2 /\ result.shape = <<0, 0>>
        ELSE result.ndim = 1 /\ result.shape = <<0>> /\ result.data = <<>>

\* C3 amended: with vars = [] each of gradient, jacobian, hessian_diag and
\* hessian returns without raising a one-dimensional result of length zero.
C3_EmptyVars ==
    (vars = <<>> /\ dop \in DiffOps) =>
        /\ ~result.raised
        /\ result.ndim = 1 /\ result.shape = <<0>> /\ result.data = <<>>

\* hessian called with vars = [] on an expression that has inputs
C3_Witness ==
    /\ vars = <<>> /\ dop = "hessian" /\ f.leaves # <<>>
    /\ result.shape = <<0>>

\* C5: for an explicit non-empty vars, hessian_diag(f, vars) is the main
\* diagonal of hessian(f, vars) = -jacobian(gradient(f, vars), vars), sign
\* included, entry k belonging to the k-th element in concatenated vars order.
C5_HessianDiagIsDiagonal ==
    (dop = "hessian_diag" /\ vars # NoVars /\ vars # <<>>) =>
        LET H == hessian(f, vars, f.leaves)
            n == SizeSum(vars) IN
        /\ H.ndim = 2 /\ H.shape = <<n, n>>
        /\ result.ndim = 1 /\ result.shape = <<n>>
        /\ result.data = [k \in 1..n |-> H.data[k][k]]

\* hessian_diag over two different variables with a non-zero entry for each
C5_Witness ==
    /\ dop = "hessian_diag" /\ vars # NoVars /\ Len(vars) = 2
    /\ vars[1] # vars[2]
    /\ result.data[1] # ZeroPoly
    /\ result.data[Len(result.data)] # ZeroPoly

\* C6: for a non-empty vars, gradient(f, vars) is the concatenation in vars
\* order of the flattened partial derivatives, its length is the sum of the
\* element counts, and a variable f does not depend on contributes zeros
\* without making the call raise.
C6_GradientBlocks ==
    (dop = "gradient" /\ vars # NoVars /\ vars # <<>>) =>
        /\ ~result.raised
        /\ Len(result.data) = SizeSum(vars)
        /\ \A i \in 1..Len(vars) : \A k \in 1..Size(vars[i]) :
              LET g == result.data[SizeSum(SubSeq(vars, 1, i - 1)) + k] IN
              /\ g = D(f.data, Elem(vars[i], k))
              /\ ~Connected(f.data, vars[i]) => g = ZeroPoly

\* a gradient over a variable f does not depend on, then one it depends on
C6_Witness ==
    /\ dop = "gradient" /\ vars # NoVars /\ Len(vars) = 2
    /\ ~Connected(f.data, vars[1]) /\ Connected(f.data, vars[2])
    /\ Size(vars[1]) = 2
    /\ result.data[1] = ZeroPoly /\ result.data[Len(result.data)] # ZeroPoly

MaxXs == 2       \* expressions handed to one call

\* the variable nodes of the graph
Nodes == {1, 2, 3}

\* var.dshape
NodeShape(n) == CASE n = 1 -> <<>> [] n = 2 -> <<2>> [] n = 3 -> <<1, 2>>

\* var.dtype
NodeDtype(n) == CASE n = 1 -> "float64" [] n = 2 -> "int64" [] n = 3 -> "float64"

\* var.tag.test_value, flattened: the value the variable holds
NodeData(n) == CASE n = 1 -> <<3>> [] n = 2 -> <<4, 6>> [] n = 3 -> <<5, 8>>

NodeValue(n) == [shape |-> NodeShape(n), dtype |-> NodeDtype(n), data |-> NodeData(n)]

\* var.dsize
NodeSize(n) == Len(NodeData(n))

RECURSIVE NodeSizeSum(_)
\* total element count of a list of variable nodes
NodeSizeSum(vs) == IF vs = <<>> THEN 0 ELSE NodeSize(Head(vs)) + NodeSizeSum(Tail(vs))

\* numpy's cast of one number to a dtype: an integer type truncates
CastNum(x, dtype) == IF dtype = "int64" THEN x - (x % 2) ELSE x

\* the dtype of a concatenation: the upcast of the parts
Upcast(dtypes) == IF "float64" \in dtypes THEN "float64" ELSE "int64"

\* ---- graph expressions ----
Var(n) == [op |-> "var", node |-> n]
Shared(n) == [op |-> "shared", node |-> n, value |-> NodeValue(n)]
Apply(args) == [op |-> "apply", args |-> args]
Slice(x, lo, hi) == [op |-> "slice", arg |-> x, lo |-> lo, hi |-> hi]
Reshape(x, shape) == [op |-> "reshape", arg |-> x, shape |-> shape]
Item0(x) == [op |-> "item", arg |-> x]
AsType(x, dtype) == [op |-> "astype", arg |-> x, dtype |-> dtype]

\* reshape_t(x, shape): x.reshape(shape), or x[0] for the empty shape
reshape_t(x, shape) == IF shape # <<>> THEN Reshape(x, shape) ELSE Item0(x)

RECURSIVE Product(_)
Product(shape) == IF shape = <<>> THEN 1 ELSE Head(shape) * Product(Tail(shape))

Missing == [shape |-> <<>>, dtype |-> "error", data |-> <<>>]

RECURSIVE Eval(_, _, _)
\* the value of expression e with the flat input holding flat and the
\* variables in given supplied with their values
Eval(e, flat, given) ==
    CASE e.op = "var" ->
            IF e.node \in given THEN NodeValue(e.node) ELSE Missing
      [] e.op = "shared" -> e.value
      [] e.op = "inarray" -> flat
      [] e.op = "slice" ->
            LET a == Eval(e.arg, flat, given) IN
            [a EXCEPT !.shape = <<e.hi - e.lo>>,
                      !.data = SubSeq(a.data, e.lo + 1, e.hi)]
      [] e.op = "reshape" ->
            LET a == Eval(e.arg, flat, given) IN
            IF e.shape # <<>> /\ Product(e.shape) = Len(a.data)
            THEN [a EXCEPT !.shape = e.shape]
            ELSE Missing
      [] e.op = "item" ->
            LET a == Eval(e.arg, flat, given) IN
            [a EXCEPT !.shape = <<>>, !.data = <<a.data[1]>>]
      [] e.op = "astype" ->
            LET a == Eval(e.arg, flat, given) IN
            IF a.dtype = "error" THEN a
            ELSE [a EXCEPT !.dtype = e.dtype,
                           !.data = [i \in 1..Len(a.data) |-> CastNum(a.data[i], e.dtype)]]
      [] e.op = "apply" ->
            [shape |-> <<>>, dtype |-> "tuple",
             data |-> [i \in 1..Len(e.args) |-> Eval(e.args[i], flat, given)]]

\* ArrayOrdering(vars).vmap: (name, slice, shape, dtype) for each variable,
\* the slices contiguous in list order
ArrayOrdering(vs, nm) ==
    [i \in 1..Len(vs) |->
        LET lo == NodeSizeSum(SubSeq(vs, 1, i - 1))
        IN [var |-> nm[vs[i]], slc |-> <<lo, lo + NodeSize(vs[i])>>,
            shp |-> NodeShape(vs[i]), dtyp |-> NodeDtype(vs[i])]]

\* joined = tt.concatenate([var.ravel() for var in vars]), its test value
Joined(vs) ==
    LET dt == Upcast({NodeDtype(vs[i]) : i \in 1..Len(vs)})
        d == Concat([i \in 1..Len(vs) |-> NodeData(vs[i])]) IN
    [shape |-> <<Len(d)>>, dtype |-> dt,
     data |-> [i \in 1..Len(d) |-> CastNum(d[i], dt)]]

\* inarray: a symbolic vector of joined's type, or a shared variable
InArray(vs, mk) ==
    [op |-> "inarray", kind |-> IF mk THEN "shared" ELSE "symbolic",
     dtype |-> Joined(vs).dtype, test_value |-> Joined(vs)]

\* get_var = {var.name: var for var in vars}: a later variable of the same
\* name replaces an earlier one
get_var(vs, nm) ==
    [name \in {nm[vs[i]] : i \in 1..Len(vs)} |->
        vs[CHOOSE i \in 1..Len(vs) :
              nm[vs[i]] = name /\ \A j \in 1..Len(vs) : nm[vs[j]] = name => j <= i]]

\* reshape_t(inarray[slc], shp).astype(dtyp)
Replacement(inarray, m) ==
    AsType(reshape_t(Slice(inarray, m.slc[1], m.slc[2]), m.shp), m.dtyp)

\* replace = {get_var[var]: ... for var, slc, shp, dtyp in ordering.vmap}:
\* a later entry with the same key replaces an earlier one
ReplaceDict(vs, nm, inarray) ==
    LET vmap == ArrayOrdering(vs, nm)
        gv == get_var(vs, nm)
        keys == {gv[vmap[i].var] : i \in 1..Len(vmap)} IN
    [k \in keys |->
        Replacement(inarray,
            vmap[CHOOSE i \in 1..Len(vmap) :
                    gv[vmap[i].var] = k
                    /\ \A j \in 1..Len(vmap) : gv[vmap[j].var] = k => j <= i])]

\* replace.update(shared)
Update(replace, sh) ==
    [k \in DOMAIN replace \cup sh |-> IF k \in sh THEN Shared(k) ELSE replace[k]]

\* theano.clone(x, replace, strict=False)
Clone(x, replace) ==
    Apply([i \in 1..Len(x.args) |->
             IF x.args[i].node \in DOMAIN replace
             THEN replace[x.args[i].node] ELSE x.args[i]])

\* join_nonshared_inputs(xs, vars, shared, make_shared)
join_nonshared_inputs(es, vs, sh, mk, nm) ==
    LET inarray == InArray(vs, mk)
        replace == Update(ReplaceDict(vs, nm, inarray), sh) IN
    [raised |-> FALSE,
     xs_special |-> [i \in 1..Len(es) |-> Clone(es[i], replace)],
     inarray |-> inarray]

\* the names the variables may carry: two variables may share one
NameChoices ==
    {nm \in [Nodes -> {"a", "b", "c"}] :
        nm[1] = "a" /\ nm[2] \in {"a", "b"}}

\* the vars lists handed in: non-empty lists of distinct nodes
NodeLists ==
    {s \in UNION {[1..n -> Nodes] : n \in 1..Cardinality(Nodes)} :
        \A i, j \in 1..Len(s) : i # j => s[i] # s[j]}

\* the expressions handed in: an operation applied to one or two variables
JoinExprs ==
    {Apply(<<Var(n)>>) : n \in Nodes}
    \cup {Apply(<<Var(n), Var(m)>>) : n \in Nodes, m \in Nodes}

\* the variable nodes an expression is built over
ExprNodes(x) == {x.args[i].node : i \in 1..Len(x.args)}

ListSet(s) == {s[i] : i \in 1..Len(s)}

DiffUnused == f = None /\ dop = None /\ result = None

InitJoin ==
    /\ StreamIdle /\ DiffUnused
    /\ names \in NameChoices
    /\ vars \in NodeLists
    /\ xs \in UNION {[1..n -> JoinExprs] : n \in 1..MaxXs}
    /\ shared \in {s \in SUBSET Nodes : Cardinality(s) <= 1}
    /\ make_shared \in BOOLEAN
    /\ jop = "init"
    /\ joined = None
    /\ evals = None

\* a call of join_nonshared_inputs
Join ==
    /\ jop = "init"
    /\ jop' = "join"
    /\ joined' = join_nonshared_inputs(xs, vars, shared, make_shared, names)
    /\ UNCHANGED <<names, vars, xs, shared, make_shared, evals, f, dop, result, streamVars>>

\* evaluate the original expressions at the variables' values and the
\* rewritten ones at the flat vector concat(flatten(value(v)) for v in vars)
Evaluate ==
    /\ jop = "join"
    /\ ~joined.raised
    /\ jop' = "evaluated"
    /\ evals' =
         [orig |-> [k \in 1..Len(xs) |-> Eval(xs[k], Missing, Nodes)],
          new |-> [k \in 1..Len(joined.xs_special) |->
                     Eval(joined.xs_special[k], Joined(vars), Nodes \ ListSet(vars))]]
    /\ UNCHANGED <<names, vars, xs, shared, make_shared, joined, f, dop, result, streamVars>>

NextJoin == Join \/ Evaluate

SpecJoin == InitJoin /\ [][NextJoin]_state

(***************************************************************************)
(* Properties of join_nonshared_inputs                                     *)
(***************************************************************************)
\* the rewriting by node identity: every variable of vars becomes the cast,
\* reshaped slice of the flat input that the ordering gives that variable,
\* every key of shared its placeholder
IdentityRewrite(x) ==
    Apply([i \in 1..Len(x.args) |->
             IF x.args[i].node \in ListSet(vars)
             THEN Replacement(joined.inarray,
                      ArrayOrdering(vars, names)[IndexOf(x.args[i].node, vars)])
             ELSE IF x.args[i].node \in shared THEN Shared(x.args[i].node)
             ELSE x.args[i]])

\* C4: with shared = {} and expressions over vars, the i-th rewritten
\* expression at the flat vector equals the i-th original expression at the
\* variables' values, and the rewritten list has the length of the input.
C4_RoundTrip ==
    (jop = "evaluated" /\ shared = {}
       /\ \A k \in 1..Len(xs) : ExprNodes(xs[k]) \subseteq ListSet(vars)) =>
        /\ Len(joined.xs_special) = Len(xs)
        /\ \A k \in 1..Len(xs) : evals.new[k] = evals.orig[k]

\* the round trip when no two variables of vars carry the same name
RoundTripDistinctNames ==
    (jop = "evaluated" /\ shared = {}
       /\ (\A i, j \in 1..Len(vars) : i # j => names[vars[i]] # names[vars[j]])
       /\ \A k \in 1..Len(xs) : ExprNodes(xs[k]) \subseteq ListSet(vars)) =>
        /\ Len(joined.xs_special) = Len(xs)
        /\ \A k \in 1..Len(xs) : evals.new[k] = evals.orig[k]

\* C7: a call whose shared mapping has a key that is also in vars fails.
C7_OverlapFails ==
    (jop # "init" /\ shared \cap ListSet(vars) # {}) => joined.raised

\* C9: variables are told apart by node identity: every variable of vars is
\* replaced by the cast, reshaped slice of its own region, also when two
\* variables carry the same name.
C9_ReplacedByIdentity ==
    (jop # "init" /\ shared \cap ListSet(vars) = {}) =>
        /\ \A k \in 1..Len(xs) : joined.xs_special[k] = IdentityRewrite(xs[k])
        /\ \A k \in 1..Len(xs) : \A i \in 1..Len(joined.xs_special[k].args) :
              joined.xs_special[k].args[i].op = "var"
                 => joined.xs_special[k].args[i].node \notin ListSet(vars)

====
